---- MODULE Spec2Model ----
(***************************************************************************)
(* Cover-image acquisition and caching pipeline of application_main.py:    *)
(* CoverImageManager (cache, failure memo, remote fetch, placeholder) and  *)
(* the threads that call it (the Tk interactive thread and the per-card    *)
(* daemon worker threads started by BookDisplay3D).                        *)
(*                                                                         *)
(* Python strings are sequences of code points, so that the f-string keys  *)
(* of get_cover_with_fallback are built by concatenation as in the code.   *)
(***************************************************************************)
EXTENDS Integers, Sequences, FiniteSets, TLC

(* ----------------------------- bounds ---------------------------------- *)

\* Number of BookDisplay3D objects constructed in a run (each starts at most
\* one worker thread).
MaxCards == 1

\* Number of user input events (mouse enter, motion and leave on a card,
\* opening a details window, redisplaying the grid) in a run.
MaxEvents == 3

\* random.choice draws from the first MaxColors entries of the palette.
MaxColors == 2

\* Longest title and author string of the key experiment.
MaxKeyLen == 2

\* Number of requests made in a run of the key experiment.
MaxRequests == 2

\* Number of cart and checkout operations in a run of the shop.
MaxOps == 4

\* Largest quantity handed to ShoppingCart.add_item.
MaxQuantity == 2

(* ------------------------ Python values -------------------------------- *)

PyStr(s) == [tag |-> "str", s |-> s]
PyNone == [tag |-> "None", s |-> <<>>]

\* str(v) as an f-string field renders it: a str as itself, None as "None".
Format(v) == IF v.tag = "str" THEN v.s ELSE <<78, 111, 110, 101>>

RECURSIVE Digits(_)
\* Decimal rendering of a non-negative int inside an f-string.
Digits(n) == IF n < 10 THEN <<48 + n>> ELSE Digits(n \div 10) \o <<48 + (n % 10)>>

\* The latin-1 codec encodes exactly the code points below 256.
Latin1(s) == \A i \in 1..Len(s) : s[i] < 256

(* ------------------------- the catalog --------------------------------- *)

\* Book records handed to the cover subsystem (id, title, author).
\*   1: "a" by "b"
\*   2: "—" (em dash) by None (author missing in the data)
Catalog ==
    (1 :> [id |-> 1, title |-> PyStr(<<97>>), author |-> PyStr(<<98>>)]) @@
    (2 :> [id |-> 2, title |-> PyStr(<<8212>>), author |-> PyNone])

Books == DOMAIN Catalog

\* The (title, author) pair of a book: the spec's FailureKey as a value.
Pair(b) == <<Catalog[b].title, Catalog[b].author>>

\* Sizes requested by the program: cards and the details window.
CardSize == <<140, 200>>
DetailsSize == <<180, 240>>

(* --------------------- CoverImageManager: keys ------------------------- *)

\* f"{book['title']}_{book['author']}_{width}x{height}" for a book record.
cache_key_str(book, width, height) ==
    Format(book.title) \o <<95>> \o Format(book.author) \o <<95>>
        \o Digits(width) \o <<120>> \o Digits(height)

\* f"{book['title']}_{book['author']}" for a book record.
fail_key_str(book) == Format(book.title) \o <<95>> \o Format(book.author)

\* cache_key = f"{book['title']}_{book['author']}_{width}x{height}"
cache_key(b, width, height) == cache_key_str(Catalog[b], width, height)

\* fail_key = f"{book['title']}_{book['author']}"
fail_key(b) == fail_key_str(Catalog[b])

(* --------------------- images and results ------------------------------ *)

NoImage == [kind |-> "none", width |-> 0, height |-> 0, bg |-> 0, art |-> 0, text |-> <<>>]
Raised == [kind |-> "raised", width |-> 0, height |-> 0, bg |-> 0, art |-> 0, text |-> <<>>]

IsImage(v) == v.kind \in {"real", "placeholder"}

\* The palette of create_instant_fallback_cover, by index.
colors == 1..MaxColors

\* Width in pixels that textbbox reports for a text in the 11-point font.
TextWidth(text) == 6 * Len(text)

\* title = book['title'][:30] + '...' if len(book['title']) > 30 else book['title']
Truncate(s) == IF Len(s) > 30 THEN SubSeq(s, 1, 30) \o <<46, 46, 46>> ELSE s

\* ImageFont.truetype("arial.ttf", 11), else ImageFont.load_default().
LoadFont(env) == IF env = "truetype" THEN "truetype" ELSE "default"

\* draw.textbbox: the built-in bitmap font encodes the text as latin-1 and
\* raises on any other character; a TrueType font measures every text.
TextMeasurable(font, text) == font = "truetype" \/ Latin1(text)

\* create_instant_fallback_cover(book, width, height) with random.choice
\* having drawn palette entry c, in font environment env.
create_instant_fallback_cover(b, width, height, c, env) ==
    LET t == Catalog[b].title
        font == LoadFont(env)
    IN  IF t.tag # "str" THEN Raised
        ELSE LET title == Truncate(t.s)
             IN  IF ~TextMeasurable(font, title) THEN Raised
                 ELSE [kind |-> "placeholder", width |-> width, height |-> height,
                       bg |-> c, art |-> 0,
                       text |-> IF TextWidth(title) < width - 20 THEN title ELSE <<>>]

\* A fetch that returns the thumbnail of a 2:3 download instead of the canvas.
final_img_thumbnail(b, width, height) ==
    [kind |-> "real", width |-> IF (2 * height) \div 3 < width
                                THEN (2 * height) \div 3 ELSE width,
     height |-> height, bg |-> 0, art |-> b, text |-> <<>>]

\* The image fetch_real_cover_optimized returns on success: the download
\* (cover id of the book) letterboxed on a white canvas of the requested size.
final_img(b, width, height) ==
    [kind |-> "real", width |-> width, height |-> height, bg |-> 0, art |-> b, text |-> <<>>]

(* ----------------------------- threads --------------------------------- *)

\* The interactive thread, and one daemon worker thread per card.
UI == 0
Cards == 1..MaxCards
Threads == {UI} \cup Cards

NetPcs == {"probe", "search", "download"}
ResolvePcs == {"lookup", "check_failed", "record_failure", "fallback"} \cup NetPcs

\* A thread's call of get_cover_with_fallback: its arguments, who called, and
\* what is recorded about it for the properties:
\*   fetch       how fetch_real_cover_optimized ended (none: not invoked)
\*   net         the call made a network request
\*   miss_seen   the cache lookup of the call found no entry
\*   fetched_before  the call began, no other call running, after the fetcher
\*               had been invoked for the (title, author) pair
\*   nf_before   the call began after a fetch for the pair had ended NotFound
\*   ret_before  the call began after a call for its key had returned an image
\*   prev        the image returned by the call just before, if it had the
\*               same key
\*   alone       no other call ran while this one did
\*   probe_failed  is_network_available() returned False in the call
NoCall == [book |-> 0, width |-> 0, height |-> 0, caller |-> "none", card |-> 0,
           angle |-> 0, fetch |-> "none", net |-> FALSE, miss_seen |-> FALSE,
           fetched_before |-> FALSE, nf_before |-> FALSE, ret_before |-> FALSE,
           prev |-> NoImage, alone |-> FALSE, probe_failed |-> FALSE]

\* A BookDisplay3D that was not constructed yet. update_ui is the image of
\* the pending after(0, update_ui) callback; dropped records that such a
\* callback ran after the card's widgets were destroyed; timed_out records
\* that check_timeout found the thread alive and printed its diagnostic;
\* threads counts the threads the card has started.
NoCard == [state |-> "absent", book |-> 0, cover_loaded |-> FALSE, image |-> NoImage,
           is_hovering |-> FALSE, load_timer |-> FALSE, update_ui |-> NoImage,
           watchdog |-> FALSE, dropped |-> FALSE, timed_out |-> FALSE, threads |-> 0]

VARIABLES
    cover_cache,    \* CoverImageManager.cover_cache: key string -> image
    failed_covers,  \* CoverImageManager.failed_covers: set of key strings
    font_env,       \* whether arial.ttf can be loaded on this machine
    pc,             \* position of each thread
    call,           \* arguments and locals of each thread's resolve call
    ret,            \* what each thread's last resolve call returned
    cards,          \* the BookDisplay3D objects and their pending Tk timers
    events,         \* number of user input events handled so far
    fetched,        \* history: books the fetcher was invoked for
    not_found,      \* history: books for which a fetch ended NotFound
    requested,      \* history: the (book, width, height) of the calls made
    last_ret,       \* history: key -> image last returned for it
    last_key,       \* history: key of the call that returned last
    key_cache,      \* key experiment: key string -> request that stored the entry
    key_memo,       \* key experiment: failure key string -> (title, author)
    key_shared,     \* key experiment: pairs of requests that used one entry
    key_count,      \* key experiment: number of requests made
    items,          \* ShoppingCart.items: lines [id, quantity]
    current_user,   \* EcommerceBookApp.current_user (NoUser: nobody signed in)
    orders,         \* users.json: user -> sequence of order records
    ledger,         \* history: id -> quantity added and not since removed
    last_op,        \* history: the last cart or checkout operation
    ops             \* number of cart and checkout operations so far

vars == <<cover_cache, failed_covers, font_env, pc, call, ret, cards, events,
          fetched, not_found, requested, last_ret, last_key,
          key_cache, key_memo, key_shared, key_count,
          items, current_user, orders, ledger, last_op, ops>>

\* The state of the cover subsystem and its threads.
covers == <<cover_cache, failed_covers, font_env, pc, call, ret, cards, events,
           fetched, not_found, requested, last_ret, last_key>>

\* The state of the key experiment.
keys == <<key_cache, key_memo, key_shared, key_count>>

\* The state of cart, session and order file.
shop == <<items, current_user, orders, ledger, last_op, ops>>

manager == <<cover_cache, failed_covers, font_env>>

history == <<fetched, not_found, requested, last_ret, last_key>>

key_of(t) == cache_key(call[t].book, call[t].width, call[t].height)

\* A store that leaves the cache as it was.
StoreDropped(cache, k, img) == cache

\* A store that keeps only the entry it writes.
StoreEvicting(cache, k, img) == (k :> img)

\* self.cover_cache[cache_key] = img
Store(cache, k, img) == (k :> img) @@ cache

(* ------------------------------- Init ---------------------------------- *)

InitCover ==
    /\ cover_cache = <<>>
    /\ failed_covers = {}
    /\ font_env \in {"truetype", "default"}
    /\ pc = [t \in Threads |-> "idle"]
    /\ call = [t \in Threads |-> NoCall]
    /\ ret = [t \in Threads |-> NoImage]
    /\ cards = [c \in Cards |-> NoCard]
    /\ events = 0
    /\ fetched = {}
    /\ not_found = {}
    /\ requested = {}
    /\ last_ret = <<>>
    /\ last_key = <<>>

InitKeys ==
    /\ key_cache = <<>>
    /\ key_memo = <<>>
    /\ key_shared = {}
    /\ key_count = 0

\* Nobody is signed in: self.current_user = None.
NoUser == "none"

\* The user names of users.json.
Users == {"reader"}

\* No cart or checkout operation was made yet.
NoOp == [op |-> "none", id |-> 0, quantity |-> 0, outcome |-> "none"]

\* self.cart = ShoppingCart(); self.current_user = None; no order on file.
InitShop ==
    /\ items = <<>>
    /\ current_user = NoUser
    /\ orders = [u \in Users |-> <<>>]
    /\ ledger = [b \in Books |-> 0]
    /\ last_op = NoOp
    /\ ops = 0

Init == InitCover /\ InitKeys /\ InitShop

(* ------------------- get_cover_with_fallback --------------------------- *)

InCall(t) == pc[t] \in ResolvePcs

\* Entry of get_cover_with_fallback(book, width, height) on thread t.
Enter(t, b, size, caller, c, angle) ==
    LET k == cache_key(b, size[1], size[2])
        new == [NoCall EXCEPT !.book = b, !.width = size[1], !.height = size[2],
                              !.caller = caller, !.card = c, !.angle = angle,
                              !.fetched_before =
                                  (b \in fetched /\ \A u \in Threads \ {t} : ~InCall(u)),
                              !.nf_before = (b \in not_found),
                              !.ret_before = (k \in DOMAIN last_ret),
                              !.prev = IF last_key = k THEN last_ret[k] ELSE NoImage,
                              !.alone = (\A u \in Threads \ {t} : ~InCall(u))]
    IN  /\ pc' = [pc EXCEPT ![t] = "lookup"]
        /\ call' = [u \in Threads |->
                      IF u = t THEN new
                      ELSE IF InCall(u) THEN [call[u] EXCEPT !.alone = FALSE]
                      ELSE call[u]]
        /\ ret' = [ret EXCEPT ![t] = NoImage]
        /\ requested' = requested \cup {<<b, size[1], size[2]>>}
        /\ UNCHANGED <<fetched, not_found, last_ret, last_key>>

\* The call of thread t ends: it returns v, or v = Raised propagates.
Return(t, v) ==
    /\ pc' = [pc EXCEPT ![t] = "returned"]
    /\ ret' = [ret EXCEPT ![t] = v]
    /\ last_ret' = IF IsImage(v) THEN (key_of(t) :> v) @@ last_ret ELSE last_ret
    /\ last_key' = IF IsImage(v) THEN key_of(t) ELSE <<>>

\* A lookup that never finds an entry.
CacheHitNever(cache, k) == FALSE

\* if cache_key in self.cover_cache:
CacheHit(cache, k) == k \in DOMAIN cache

\* if cache_key in self.cover_cache: return self.cover_cache[cache_key]
Lookup(t) ==
    /\ pc[t] = "lookup"
    /\ IF CacheHit(cover_cache, key_of(t))
       THEN /\ Return(t, cover_cache[key_of(t)])
            /\ UNCHANGED call
       ELSE /\ pc' = [pc EXCEPT ![t] = "check_failed"]
            /\ call' = [call EXCEPT ![t].miss_seen = key_of(t) \notin DOMAIN cover_cache]
            /\ UNCHANGED <<ret, last_ret, last_key>>
    /\ UNCHANGED <<manager, cards, events, fetched, not_found, requested>>
    /\ UNCHANGED <<keys, shop>>

\* A memo that is never consulted.
KnownFailureNever(failed, k) == FALSE

\* if fail_key in self.failed_covers:
KnownFailure(failed, k) == k \in failed

\* if fail_key in self.failed_covers:
\*     return self.create_instant_fallback_cover(book, width, height)
\* else fetch_real_cover_optimized is called.
CheckFailed(t) ==
    /\ pc[t] = "check_failed"
    /\ IF KnownFailure(failed_covers, fail_key(call[t].book))
       THEN /\ \E c \in colors :
                 Return(t, create_instant_fallback_cover(call[t].book, call[t].width,
                                                         call[t].height, c, font_env))
            /\ UNCHANGED <<call, fetched>>
       ELSE /\ pc' = [pc EXCEPT ![t] = "probe"]
            /\ fetched' = fetched \cup {call[t].book}
            /\ UNCHANGED <<call, ret, last_ret, last_key>>
    /\ UNCHANGED <<manager, cards, events, not_found, requested>>
    /\ UNCHANGED <<keys, shop>>

\* fetch_real_cover_optimized returns None to thread t.
FetchNone(t) ==
    /\ pc' = [pc EXCEPT ![t] = "fallback"]
    /\ call' = [call EXCEPT ![t].fetch = "not_found", ![t].net = TRUE]
    /\ not_found' = not_found \cup {call[t].book}

\* fetch_real_cover_optimized, first part: is_network_available() (a HEAD
\* request whose every failure is turned into False), then the .strip()
\* .replace() of title and author, which raises on a value that is no str.
Probe(t) ==
    /\ pc[t] = "probe"
    /\ \E available \in BOOLEAN :
         IF ~available
         THEN /\ pc' = [pc EXCEPT ![t] = "fallback"]
              /\ call' = [call EXCEPT ![t].fetch = "not_found", ![t].net = TRUE,
                                      ![t].probe_failed = TRUE]
              /\ not_found' = not_found \cup {call[t].book}
         ELSE /\ IF Catalog[call[t].book].title.tag # "str"
                    \/ Catalog[call[t].book].author.tag # "str"
                 THEN /\ pc' = [pc EXCEPT ![t] = "record_failure"]
                      /\ call' = [call EXCEPT ![t].fetch = "raised", ![t].net = TRUE]
                 ELSE /\ pc' = [pc EXCEPT ![t] = "search"]
                      /\ call' = [call EXCEPT ![t].net = TRUE]
              /\ UNCHANGED not_found
    /\ UNCHANGED <<manager, ret, cards, events, fetched, requested, last_ret, last_key>>
    /\ UNCHANGED <<keys, shop>>

\* A metadata query that never returns.
SearchOutcomesNone == {}

SearchOutcomes == {"exception", "bad_status", "no_docs", "no_cover_i", "cover_i"}

\* The metadata query self.session.get(url, timeout=1.5) and the reading
\* of its JSON answer; everything but a first match with cover_i ends the
\* fetch with None.
Search(t) ==
    /\ pc[t] = "search"
    /\ \E outcome \in SearchOutcomes :
         IF outcome = "cover_i"
         THEN /\ pc' = [pc EXCEPT ![t] = "download"]
              /\ UNCHANGED <<call, not_found>>
         ELSE FetchNone(t)
    /\ UNCHANGED <<manager, ret, cards, events, fetched, requested, last_ret, last_key>>
    /\ UNCHANGED <<keys, shop>>

DownloadOutcomes == {"exception", "bad_status", "decode_error", "ok"}

\* The image download, decode, thumbnail and paste; on success the caller
\* stores the cover (self.cover_cache[cache_key] = cover) and returns it.
Download(t) ==
    /\ pc[t] = "download"
    /\ \E outcome \in DownloadOutcomes :
         IF outcome = "ok"
         THEN LET cover == final_img(call[t].book, call[t].width, call[t].height)
              IN  /\ cover_cache' = Store(cover_cache, key_of(t), cover)
                  /\ call' = [call EXCEPT ![t].fetch = "cover"]
                  /\ Return(t, cover)
                  /\ UNCHANGED not_found
         ELSE /\ FetchNone(t)
              /\ UNCHANGED <<cover_cache, ret, last_ret, last_key>>
    /\ UNCHANGED <<failed_covers, font_env, cards, events, fetched, requested>>
    /\ UNCHANGED <<keys, shop>>

\* A memo update that toggles the key instead of adding it.
AddFailureToggle(failed, k) == IF k \in failed THEN failed \ {k} ELSE failed \cup {k}

\* self.failed_covers.add(fail_key)
AddFailure(failed, k) == failed \cup {k}

\* except Exception as e: ... self.failed_covers.add(fail_key)
RecordFailure(t) ==
    /\ pc[t] = "record_failure"
    /\ failed_covers' = AddFailure(failed_covers, fail_key(call[t].book))
    /\ pc' = [pc EXCEPT ![t] = "fallback"]
    /\ UNCHANGED <<cover_cache, font_env, call, ret, cards, events, history>>
    /\ UNCHANGED <<keys, shop>>

\* fallback = self.create_instant_fallback_cover(book, width, height)
\* self.cover_cache[cache_key] = fallback; return fallback
Fallback(t) ==
    /\ pc[t] = "fallback"
    /\ \E c \in colors :
         LET fallback == create_instant_fallback_cover(call[t].book, call[t].width,
                                                       call[t].height, c, font_env)
         IN  /\ Return(t, fallback)
             /\ cover_cache' = IF IsImage(fallback)
                               THEN Store(cover_cache, key_of(t), fallback)
                               ELSE cover_cache
    /\ UNCHANGED <<failed_covers, font_env, call, cards, events, fetched, not_found,
                   requested>>
    /\ UNCHANGED <<keys, shop>>

(* --------------------------- BookDisplay3D ----------------------------- *)

\* 10000 * cos(angle) for the rotation angles a motion event can set.
CosE4(angle) == IF angle = 0 THEN 10000 ELSE 9659

Angles == {0, 15}

\* apply_3d_rotation(img, angle): a new image, scaled by
\* 0.8 + 0.2 * abs(cos(angle)); the argument is left as it is.
apply_3d_rotation(img, angle) ==
    LET new_width == (img.width * (80000 + 2 * CosE4(angle))) \div 100000
        new_height == (img.height * (80000 + 2 * CosE4(angle))) \div 100000
    IN  IF new_width > 0 /\ new_height > 0
        THEN [img EXCEPT !.kind = "rotated", !.width = new_width, !.height = new_height]
        ELSE img

\* The next BookDisplay3D to be constructed.
NextCard == Cardinality({c \in Cards : cards[c].state # "absent"}) + 1

\* A construction that leaves the rendering of the placeholder to later.
constructed_unrendered(b, cover_image) ==
    [NoCard EXCEPT !.state = "live", !.book = b, !.load_timer = TRUE]

\* The card at the end of its construction: the placeholder is on the label
\* and the after(100) timer is pending.
constructed(b, cover_image) ==
    [NoCard EXCEPT !.state = "live", !.book = b, !.image = cover_image,
                   !.load_timer = TRUE]

\* BookDisplay3D.create_book_frame, from "self.cover_loaded = False" on:
\* show_placeholder_cover() displays an uncached placeholder; the hover and
\* click bindings and the after(100, load_real_cover_async) timer follow, and
\* are not reached when the placeholder generator raised.
CreateCard(b) ==
    /\ pc[UI] = "idle"
    /\ NextCard \in Cards
    /\ \E c \in colors :
         LET cover_image == create_instant_fallback_cover(b, CardSize[1], CardSize[2],
                                                          c, font_env)
         IN  cards' = [cards EXCEPT ![NextCard] =
                 IF IsImage(cover_image)
                 THEN constructed(b, cover_image)
                 ELSE [NoCard EXCEPT !.state = "unbound", !.book = b]]
    /\ UNCHANGED <<manager, pc, call, ret, events, history>>
    /\ UNCHANGED <<keys, shop>>

\* A timer that fires again and again.
timer_repeating(card) == TRUE

\* self.parent.after(100, self.load_real_cover_async) fires once: whether
\* the timer is still pending after it fired.
timer_after_firing(card) == FALSE

\* load_real_cover_async, run by the after(100) timer on the interactive
\* thread: starts the daemon thread and arms the 5 s check_timeout timer.
LoadRealCoverAsync(c) ==
    /\ pc[UI] = "idle"
    /\ cards[c].state = "live"
    /\ cards[c].load_timer
    /\ IF cards[c].cover_loaded
       THEN /\ cards' = [cards EXCEPT ![c].load_timer = timer_after_firing(cards[c])]
            /\ UNCHANGED <<pc, call, ret, history>>
       ELSE /\ cards' = [cards EXCEPT ![c].load_timer = timer_after_firing(cards[c]),
                                      ![c].watchdog = TRUE,
                                      ![c].threads = @ + 1]
            /\ Enter(c, cards[c].book, CardSize, "worker", c, 0)
    /\ UNCHANGED <<manager, events>>
    /\ UNCHANGED <<keys, shop>>

\* A worker that sets the label's image itself.
schedule_update_ui_direct(card, cover_image) ==
    IF card.state = "live"
    THEN [card EXCEPT !.image = cover_image, !.cover_loaded = TRUE]
    ELSE card

\* self.parent.after(0, update_ui): the worker only registers the callback.
schedule_update_ui(card, cover_image) == [card EXCEPT !.update_ui = cover_image]

\* load_in_background after get_cover_with_fallback: a truthy image is handed
\* to the interactive thread with self.parent.after(0, update_ui); an
\* exception is printed. The thread ends.
WorkerDone(t) ==
    /\ t \in Cards
    /\ pc[t] = "returned"
    /\ pc' = [pc EXCEPT ![t] = "finished"]
    /\ cards' = [cards EXCEPT ![t] = IF IsImage(ret[t])
                                     THEN schedule_update_ui(cards[t], ret[t])
                                     ELSE cards[t]]
    /\ call' = [call EXCEPT ![t] = NoCall]
    /\ ret' = [ret EXCEPT ![t] = NoImage]
    /\ UNCHANGED <<manager, events, history>>
    /\ UNCHANGED <<keys, shop>>

\* A callback body that sets the fields before it touches the label.
update_ui_body_unguarded(card) ==
    [card EXCEPT !.image = card.update_ui, !.cover_loaded = TRUE, !.update_ui = NoImage,
                 !.dropped = (card.state # "live")]

\* The body of update_ui: on a destroyed label configure raises TclError
\* before the two assignments; the except clause prints and nothing is changed.
update_ui_body(card) ==
    IF card.state = "live"
    THEN [card EXCEPT !.image = card.update_ui, !.cover_loaded = TRUE,
                      !.update_ui = NoImage]
    ELSE [card EXCEPT !.update_ui = NoImage, !.dropped = TRUE]

\* update_ui, run by the after(0) timer on the interactive thread.
update_ui(c) ==
    /\ pc[UI] = "idle"
    /\ cards[c].update_ui # NoImage
    /\ cards' = [cards EXCEPT ![c] = update_ui_body(cards[c])]
    /\ UNCHANGED <<manager, pc, call, ret, events, history>>
    /\ UNCHANGED <<keys, shop>>

\* thread.is_alive(): the thread was started and load_in_background has
\* not returned.
is_alive(t) == pc[t] \in ResolvePcs \cup {"returned"}

\* A watchdog that puts the card back to its placeholder state.
check_timeout_body_reset(card, alive) ==
    [card EXCEPT !.watchdog = FALSE, !.timed_out = alive, !.cover_loaded = FALSE,
                 !.update_ui = NoImage]

\* The body of check_timeout: "if thread.is_alive(): print(...)".
check_timeout_body(card, alive) ==
    [card EXCEPT !.watchdog = FALSE, !.timed_out = (card.timed_out \/ alive)]

\* check_timeout, run by the after(5000) timer on the interactive thread.
check_timeout(c) ==
    /\ pc[UI] = "idle"
    /\ cards[c].state = "live"
    /\ cards[c].watchdog
    /\ cards' = [cards EXCEPT ![c] = check_timeout_body(cards[c], is_alive(c))]
    /\ UNCHANGED <<manager, pc, call, ret, events, history>>
    /\ UNCHANGED <<keys, shop>>

\* on_enter: self.is_hovering = True
on_enter(c) ==
    /\ pc[UI] = "idle"
    /\ events < MaxEvents
    /\ events' = events + 1
    /\ cards[c].state = "live"
    /\ ~cards[c].is_hovering
    /\ cards' = [cards EXCEPT ![c].is_hovering = TRUE]
    /\ UNCHANGED <<manager, pc, call, ret, history>>
    /\ UNCHANGED <<keys, shop>>

\* on_motion: while hovering, sets rotation_angle and calls
\* update_book_cover -> create_book_cover_image -> get_cover_with_fallback.
on_motion(c, angle) ==
    /\ pc[UI] = "idle"
    /\ events < MaxEvents
    /\ events' = events + 1
    /\ cards[c].state = "live"
    /\ cards[c].is_hovering
    /\ Enter(UI, cards[c].book, CardSize, "hover", c, angle)
    /\ UNCHANGED <<manager, cards>>
    /\ UNCHANGED <<keys, shop>>

\* on_leave: is_hovering = False, rotation_angle = 0, update_book_cover().
on_leave(c) ==
    /\ pc[UI] = "idle"
    /\ events < MaxEvents
    /\ events' = events + 1
    /\ cards[c].state = "live"
    /\ cards[c].is_hovering
    /\ cards' = [cards EXCEPT ![c].is_hovering = FALSE]
    /\ Enter(UI, cards[c].book, CardSize, "hover", c, 0)
    /\ UNCHANGED manager
    /\ UNCHANGED <<keys, shop>>

\* EcommerceBookApp.show_book_details(book): the interactive thread calls
\* cover_manager.get_cover_with_fallback(book, 180, 240).
show_book_details(b) ==
    /\ pc[UI] = "idle"
    /\ events < MaxEvents
    /\ events' = events + 1
    /\ Enter(UI, b, DetailsSize, "details", 0, 0)
    /\ UNCHANGED <<manager, cards>>
    /\ UNCHANGED <<keys, shop>>

\* A rotation that resizes the image it was given in place.
rotation_argument_resized(img, angle) == apply_3d_rotation(img, angle)

\* The image apply_3d_rotation was given, after the call: img is only read
\* (img.size, canvas.paste(img, offset)); rotate, resize and crop each
\* return a new image.
rotation_argument(img, angle) == img

\* get_cover_with_fallback returned to thread t the object the cache holds
\* under the call's key: every return but that of line 118 hands out the
\* stored object itself.
returns_cached_object(t) ==
    /\ IsImage(ret[t])
    /\ ~(call[t].miss_seen /\ call[t].fetch = "none")
    /\ key_of(t) \in DOMAIN cover_cache
    /\ cover_cache[key_of(t)] = ret[t]

\* update_book_cover: the image the label shows afterwards. The result of
\* create_book_cover_image, rotated when the angle is not 0, is configured;
\* on an exception the except clause configures a text, which a Tk label
\* that has an image does not display: the image shown stays.
update_book_cover(shown, cover_image, angle) ==
    IF ~IsImage(cover_image) THEN shown
    ELSE IF angle # 0 THEN apply_3d_rotation(cover_image, angle)
    ELSE cover_image

\* The interactive thread is back from get_cover_with_fallback: in
\* update_book_cover for a hover event; show_book_details puts the image in
\* its own window.
UiDone ==
    /\ pc[UI] = "returned"
    /\ pc' = [pc EXCEPT ![UI] = "idle"]
    /\ cards' = IF call[UI].caller = "hover"
                THEN [cards EXCEPT ![call[UI].card].image =
                        update_book_cover(cards[call[UI].card].image, ret[UI],
                                          call[UI].angle)]
                ELSE cards
    /\ cover_cache' = IF call[UI].caller = "hover" /\ call[UI].angle # 0
                         /\ returns_cached_object(UI)
                      THEN [cover_cache EXCEPT ![key_of(UI)] =
                              rotation_argument(ret[UI], call[UI].angle)]
                      ELSE cover_cache
    /\ call' = [call EXCEPT ![UI] = NoCall]
    /\ ret' = [ret EXCEPT ![UI] = NoImage]
    /\ UNCHANGED <<failed_covers, font_env, events, history>>
    /\ UNCHANGED <<keys, shop>>

\* display_books_in_grid: "for widget in ...winfo_children(): widget.destroy()".
\* Destroying a card's frame deletes the timers registered through it.
display_books_in_grid ==
    /\ pc[UI] = "idle"
    /\ events < MaxEvents
    /\ events' = events + 1
    /\ \E c \in Cards : cards[c].state \in {"live", "unbound"}
    /\ cards' = [c \in Cards |->
                   IF cards[c].state \in {"live", "unbound"}
                   THEN [cards[c] EXCEPT !.state = "destroyed", !.is_hovering = FALSE,
                                         !.load_timer = FALSE, !.watchdog = FALSE,
                                         !.update_ui = NoImage]
                   ELSE cards[c]]
    /\ UNCHANGED <<manager, pc, call, ret, history>>
    /\ UNCHANGED <<keys, shop>>

(* ------------------------------ Next ----------------------------------- *)

Next ==
    \/ \E b \in Books : CreateCard(b)
    \/ \E b \in Books : show_book_details(b)
    \/ \E c \in Cards : LoadRealCoverAsync(c)
    \/ \E c \in Cards : update_ui(c)
    \/ \E c \in Cards : check_timeout(c)
    \/ \E c \in Cards : on_enter(c)
    \/ \E c \in Cards, angle \in Angles : on_motion(c, angle)
    \/ \E c \in Cards : on_leave(c)
    \/ display_books_in_grid
    \/ UiDone
    \/ \E t \in Cards : WorkerDone(t)
    \/ \E t \in Threads : Lookup(t)
    \/ \E t \in Threads : CheckFailed(t)
    \/ \E t \in Threads : Probe(t)
    \/ \E t \in Threads : Search(t)
    \/ \E t \in Threads : Download(t)
    \/ \E t \in Threads : RecordFailure(t)
    \/ \E t \in Threads : Fallback(t)

Spec == Init /\ [][Next]_vars

\* The steps of the daemon thread of card t: get_cover_with_fallback and the
\* rest of load_in_background.
load_in_background(t) ==
    \/ Lookup(t) \/ CheckFailed(t) \/ Probe(t) \/ Search(t) \/ Download(t)
    \/ RecordFailure(t) \/ Fallback(t) \/ WorkerDone(t)

\* A started thread is scheduled again and again, and each of its requests
\* returns or runs into its timeout (timeout=1, 1.5 and 2 seconds).
FairSpec == Spec /\ \A t \in Cards : WF_vars(load_in_background(t))

(* --------------------------- key experiment ---------------------------- *)

\* Titles and authors: the strings of 'a' and '_' up to MaxKeyLen, and for
\* the author also a missing value and the string "None".
KeyAlphabet == {97, 95}
KeyStrings == UNION {[1..n -> KeyAlphabet] : n \in 1..MaxKeyLen}
KeyTitles == {PyStr(t) : t \in KeyStrings}
KeyAuthors == {PyStr(a) : a \in KeyStrings} \cup {PyNone, PyStr(<<78, 111, 110, 101>>)}
KeyBooks == {[id |-> 0, title |-> t, author |-> a] : t \in KeyTitles, a \in KeyAuthors}
Sizes == {CardSize, DetailsSize}

\* The spec's CoverKey and FailureKey of a request, as values.
CoverKey(book, size) == <<book.title, book.author, size[1], size[2]>>
FailureKey(book) == <<book.title, book.author>>

\* The outcomes of the fetch for a book: a cover or None, and for a title or
\* author that is no str the exception of the .strip() call.
FetchOutcomes(book) ==
    IF book.title.tag = "str" /\ book.author.tag = "str"
    THEN {"cover", "none"}
    ELSE {"raised", "none"}

\* get_cover_with_fallback by its keys alone: which entry of cover_cache and
\* of failed_covers a request finds, and which it writes. An entry carries
\* the request that wrote it.
ResolveByKey(book, size, outcome) ==
    LET k == cache_key_str(book, size[1], size[2])
        fk == fail_key_str(book)
    IN  /\ key_count < MaxRequests
        /\ key_count' = key_count + 1
        /\ outcome \in FetchOutcomes(book)
        /\ IF k \in DOMAIN key_cache
           THEN /\ key_shared' = key_shared \cup
                       {[stored |-> key_cache[k], asked |-> CoverKey(book, size)]}
                /\ UNCHANGED <<key_cache, key_memo>>
           ELSE IF fk \in DOMAIN key_memo
           THEN /\ key_shared' = key_shared \cup
                       {[stored |-> key_memo[fk], asked |-> FailureKey(book)]}
                /\ UNCHANGED <<key_cache, key_memo>>
           ELSE /\ key_cache' = Store(key_cache, k, CoverKey(book, size))
                /\ key_memo' = IF outcome = "raised"
                               THEN (fk :> FailureKey(book)) @@ key_memo
                               ELSE key_memo
                /\ UNCHANGED key_shared
        /\ UNCHANGED <<covers, shop>>

NextKeys ==
    \E book \in KeyBooks, size \in Sizes, outcome \in {"cover", "none", "raised"} :
        ResolveByKey(book, size, outcome)

KeySpec == Init /\ [][NextKeys]_vars

(* ------------------------- ShoppingCart, checkout ---------------------- *)

Quantities == 1..MaxQuantity

\* for item in self.items: if item['book']['id'] == book['id']
HasLine(its, id) == \E i \in 1..Len(its) : its[i].id = id

\* The first line of the book: the loop of add_item returns at the first match.
FirstLine(its, id) ==
    CHOOSE i \in 1..Len(its) :
        its[i].id = id /\ \A j \in 1..(i - 1) : its[j].id # id

\* An add_item that appends a line whether or not the book has one.
add_item_append(its, id, quantity) == Append(its, [id |-> id, quantity |-> quantity])

\* ShoppingCart.add_item(book, quantity)
add_item(its, id, quantity) ==
    IF HasLine(its, id)
    THEN [its EXCEPT ![FirstLine(its, id)].quantity = @ + quantity]
    ELSE Append(its, [id |-> id, quantity |-> quantity])

\* ShoppingCart.remove_item(book_id)
remove_item(its, id) == SelectSeq(its, LAMBDA item : item.id # id)

RECURSIVE get_item_count(_)
\* ShoppingCart.get_item_count(): sum(item['quantity'] for item in self.items)
get_item_count(its) ==
    IF its = <<>> THEN 0 ELSE Head(its).quantity + get_item_count(Tail(its))

\* order_items of checkout: one entry per cart line.
order_items(its) == [i \in 1..Len(its) |-> [id |-> its[i].id, qty |-> its[i].quantity]]

\* An operation of the shop is counted and remembered.
Record(op, id, quantity, outcome) ==
    /\ ops < MaxOps
    /\ ops' = ops + 1
    /\ last_op' = [op |-> op, id |-> id, quantity |-> quantity, outcome |-> outcome]

\* self.cart.add_item(book, quantity)
AddItem(b, quantity) ==
    /\ Record("add", b, quantity, "none")
    /\ items' = add_item(items, b, quantity)
    /\ ledger' = [ledger EXCEPT ![b] = @ + quantity]
    /\ UNCHANGED <<current_user, orders>>
    /\ UNCHANGED <<covers, keys>>

\* self.cart.remove_item(book_id)
RemoveItem(b) ==
    /\ Record("remove", b, 0, "none")
    /\ items' = remove_item(items, b)
    /\ ledger' = [ledger EXCEPT ![b] = 0]
    /\ UNCHANGED <<current_user, orders>>
    /\ UNCHANGED <<covers, keys>>

\* A successful sign-in: self.current_user = {...}
Login(u) ==
    /\ current_user = NoUser
    /\ current_user' = u
    /\ UNCHANGED <<items, orders, ledger, last_op, ops>>
    /\ UNCHANGED <<covers, keys>>

\* logout, confirmed: self.current_user = None; self.cart.clear()
logout ==
    /\ current_user # NoUser
    /\ Record("clear", 0, 0, "none")
    /\ current_user' = NoUser
    /\ items' = <<>>
    /\ ledger' = [b \in Books |-> 0]
    /\ UNCHANGED orders
    /\ UNCHANGED <<covers, keys>>

\* checkout, reached from the cart window of a cart that has lines. confirm
\* is the answer to "Confirm Order"; saved is whether reading and writing
\* users.json went without an exception (the except clause prints and the
\* method goes on).
checkout(confirm, saved) ==
    /\ items # <<>>
    /\ IF current_user = NoUser
       THEN /\ Record("checkout", 0, 0, "login_required")
            /\ UNCHANGED <<items, current_user, orders, ledger>>
       ELSE IF ~confirm
       THEN /\ Record("checkout", 0, 0, "declined")
            /\ UNCHANGED <<items, current_user, orders, ledger>>
       ELSE /\ Record("checkout", 0, 0, "confirmed")
            /\ orders' = IF saved
                         THEN [orders EXCEPT ![current_user] =
                                  Append(@, order_items(items))]
                         ELSE orders
            /\ items' = <<>>
            /\ ledger' = [b \in Books |-> 0]
            /\ UNCHANGED current_user
    /\ UNCHANGED <<covers, keys>>

NextShop ==
    \/ \E b \in Books, quantity \in Quantities : AddItem(b, quantity)
    \/ \E b \in Books : RemoveItem(b)
    \/ \E u \in Users : Login(u)
    \/ logout
    \/ \E confirm \in BOOLEAN, saved \in BOOLEAN : checkout(confirm, saved)

ShopSpec == Init /\ [][NextShop]_vars

(* ------------------------------ properties ----------------------------- *)

Returned(t) == pc[t] = "returned"

\* C1: get_cover_with_fallback never fails: whatever the book, the size and
\* the outcome of the remote fetch, every call returns an image and no
\* exception reaches the caller.
ResolveNeverFails == \A t \in Threads : Returned(t) => IsImage(ret[t])

\* C2: failure memoization: a call that begins after a fetch for its
\* (title, author) pair ended NotFound makes no network attempt, at the same
\* or at a different size.
NotFoundSuppressesNetwork ==
    \A t \in Threads : call[t].nf_before => (pc[t] \notin NetPcs /\ ~call[t].net)

\* C3: the remote fetcher is invoked at most once per (title, author) pair,
\* over any sequence of calls, sizes and fetch outcomes: a call made after
\* the calls that invoked it for the pair does not invoke it again.
FetchAtMostOncePerPair ==
    \A t \in Threads :
        call[t].fetched_before
            => (pc[t] \notin NetPcs /\ call[t].fetch = "none" /\ ~call[t].net)

\* C3, amended: once a call for a cache key has returned an image, no call
\* begun afterwards for that key invokes the remote fetcher.
NoFetchAfterReturnForKey ==
    \A t \in Threads :
        call[t].ret_before => (pc[t] \notin NetPcs /\ call[t].fetch = "none" /\ ~call[t].net)

\* A call begun after an image was returned for its key has itself returned,
\* the fetcher having been invoked for the book earlier.
NoFetchAfterReturnForKeyWitness ==
    \E t \in Threads : Returned(t) /\ call[t].ret_before /\ call[t].book \in fetched

\* C4: when the remote fetch ends NotFound, the call returns a placeholder and
\* the (title, author) failure key is in failed_covers when it returns.
NotFoundRecordsFailure ==
    \A t \in Threads :
        (Returned(t) /\ call[t].fetch = "not_found")
            => (ret[t].kind = "placeholder" /\ fail_key(call[t].book) \in failed_covers)

\* C5: idempotence: of two calls made one after the other with the same book,
\* width and height, the second returns the image the first returned and
\* makes no network request.
ResolveIdempotent ==
    \A t \in Threads :
        (Returned(t) /\ call[t].alone /\ IsImage(call[t].prev))
            => (ret[t] = call[t].prev /\ ~call[t].net)

\* C6: the interactive thread never performs or waits on network I/O (probe,
\* metadata query, image download), whatever UI event it is handling.
UiThreadNeverOnNetwork == pc[UI] \notin NetPcs

\* C7: once a cache key is mapped to an image it stays mapped to that same
\* image in every later state, under every interleaving.
CacheEntryNeverReplaced ==
    [][\A k \in DOMAIN cover_cache :
          k \in DOMAIN cover_cache' /\ cover_cache'[k] = cover_cache[k]]_vars

\* C7, amended: a cache key stays mapped once it is mapped, and its image is
\* replaced only by a call whose own lookup of the key missed before the
\* entry was stored; a call that finds the entry never writes it.
CacheReplacedOnlyAfterMiss ==
    [][\A k \in DOMAIN cover_cache :
          /\ k \in DOMAIN cover_cache'
          /\ cover_cache'[k] # cover_cache[k]
               => \E t \in Threads : /\ InCall(t) /\ pc'[t] = "returned"
                                     /\ key_of(t) = k /\ call[t].miss_seen]_vars

\* Two overlapping calls for one key both missed it and returned different
\* images (one replaced the other's entry), and the entry is in the cache.
CacheReplacedOnlyAfterMissWitness ==
    \E t, u \in Threads :
        /\ t # u /\ Returned(t) /\ Returned(u) /\ key_of(t) = key_of(u)
        /\ call[t].miss_seen /\ call[u].miss_seen
        /\ IsImage(ret[t]) /\ IsImage(ret[u]) /\ ret[t] # ret[u]
        /\ key_of(t) \in DOMAIN cover_cache

\* C8: the cache never evicts: the set of keys of cover_cache only grows.
CacheNeverEvicts == [][DOMAIN cover_cache \subseteq DOMAIN cover_cache']_vars

\* The cache holds entries for two keys.
CacheNeverEvictsWitness == Cardinality(DOMAIN cover_cache) >= 2

\* C9: a failure key, once in failed_covers, is in it in every later state.
FailureKeyPermanent == [][failed_covers \subseteq failed_covers']_vars

\* A failure key is recorded and a later call, which skipped the network
\* because of it, has returned.
FailureKeyPermanentWitness ==
    /\ failed_covers # {}
    /\ \E t \in Threads : /\ Returned(t) /\ call[t].miss_seen /\ call[t].fetch = "none"
                          /\ fail_key(call[t].book) \in failed_covers

RequestedKeys == {cache_key(r[1], r[2], r[3]) : r \in requested}
RequestedPairs == {Pair(r[1]) : r \in requested}
RequestedSizes == {<<r[2], r[3]>> : r \in requested}

\* C10: concurrency safety: with calls running concurrently over K pairs and
\* S sizes, every call that ends has returned an image, none has raised, and
\* the cache holds at most K*S entries, each under a requested key.
ConcurrentResolveSafe ==
    /\ \A t \in Threads : Returned(t) => ret[t].kind # "raised"
    /\ Cardinality(DOMAIN cover_cache)
           <= Cardinality(RequestedPairs) * Cardinality(RequestedSizes)
    /\ DOMAIN cover_cache \subseteq RequestedKeys

WorkerStep(t) == pc[t] # "idle" /\ pc'[t] # pc[t]

\* C12: the displayed image and the cover_loaded flag of a card change only
\* in steps of the interactive thread; no step of a worker thread changes them.
OnlyUiThreadTouchesCard ==
    [][(\E t \in Cards : WorkerStep(t))
          => \A c \in Cards : /\ cards'[c].image = cards[c].image
                              /\ cards'[c].cover_loaded = cards[c].cover_loaded]_vars

\* A worker's result was displayed on its card.
OnlyUiThreadTouchesCardWitness ==
    \E c \in Cards : /\ cards[c].cover_loaded
                     /\ pc[c] = "finished"
                     /\ cards[c].image.kind \in {"real", "placeholder"}

\* C13: for every book and size (w, h), the image get_cover_with_fallback
\* returns, fetched, cached or placeholder, has exactly width w and height h.
ReturnedImageHasRequestedSize ==
    \A t \in Threads :
        (Returned(t) /\ IsImage(ret[t]))
        => ret[t].width = call[t].width /\ ret[t].height = call[t].height

\* A fetched cover of the details size was returned while the cache holds
\* covers of two keys.
ReturnedImageHasRequestedSizeWitness ==
    \E t \in Threads : /\ Returned(t)
                       /\ ret[t].kind = "real"
                       /\ <<call[t].width, call[t].height>> = DetailsSize
                       /\ Cardinality(DOMAIN cover_cache) >= 2

\* C14: fetch_real_cover_optimized maps every exception to None and never
\* lets an exception reach its caller.
FetcherNeverRaises == \A t \in Threads : call[t].fetch # "raised"

\* C15: when the connectivity probe fails, the fetcher ends NotFound without
\* a metadata query or a download, and the call returns a placeholder.
ProbeFailureShortCircuits ==
    \A t \in Threads :
        call[t].probe_failed
        => /\ pc[t] \in {"fallback", "returned"}
           /\ call[t].fetch = "not_found"
           /\ Returned(t) => (IsImage(ret[t]) /\ ret[t].kind = "placeholder")

\* C16: create_instant_fallback_cover is total: neither the construction of
\* a card nor a call of get_cover_with_fallback sees it raise.
PlaceholderGeneratorTotal ==
    /\ \A c \in Cards : cards[c].state # "unbound"
    /\ \A t \in Threads : ret[t] # Raised

\* The call of thread t found no cache entry and its failure key in the memo.
MemoHit(t) == Returned(t) /\ call[t].miss_seen /\ call[t].fetch = "none"

\* C17: a call changes no cache entry but that of its own key and size, and
\* a network attempt begins only while the (title, author) pair has no
\* recorded failure, at whatever size the failure was recorded.
SizesShareFailureNotCache ==
    [][/\ \A k \in DOMAIN cover_cache' :
              (k \notin DOMAIN cover_cache \/ cover_cache'[k] # cover_cache[k])
              => \E t \in Threads : InCall(t) /\ key_of(t) = k /\ pc'[t] = "returned"
       /\ \A t \in Threads :
              (pc[t] # "probe" /\ pc'[t] = "probe")
              => fail_key(call[t].book) \notin failed_covers]_vars

\* A call of the details size went without the network on a failure recorded
\* by the call of the card size, whose entry is in the cache; the details
\* size has no entry.
SizesShareFailureNotCacheWitness ==
    \E t \in Threads :
        /\ MemoHit(t)
        /\ IsImage(ret[t])
        /\ <<call[t].width, call[t].height>> = DetailsSize
        /\ cache_key(call[t].book, CardSize[1], CardSize[2]) \in DOMAIN cover_cache
        /\ key_of(t) \notin DOMAIN cover_cache

\* C18: every call that returns a generated placeholder has stored it in the
\* cache under its key before it returns.
PlaceholderAlwaysCached ==
    \A t \in Threads :
        (Returned(t) /\ call[t].miss_seen /\ IsImage(ret[t])
            /\ ret[t].kind = "placeholder")
        => key_of(t) \in DOMAIN cover_cache

\* C19: a call whose key is in the cache returns the cached image in its
\* lookup step, without the network and without a new placeholder, and leaves
\* cache and memo as they were.
CacheHitIsPure ==
    [][\A t \in Threads :
          (pc[t] = "lookup" /\ pc'[t] # "lookup" /\ key_of(t) \in DOMAIN cover_cache)
          => /\ pc'[t] = "returned"
             /\ ret'[t] = cover_cache[key_of(t)]
             /\ ~call'[t].net /\ call'[t].fetch = "none"
             /\ cover_cache' = cover_cache
             /\ failed_covers' = failed_covers]_vars

\* A call returned the image the cache held for its key.
CacheHitIsPureWitness ==
    \E t \in Threads : /\ Returned(t)
                       /\ ~call[t].miss_seen
                       /\ call[t].ret_before
                       /\ key_of(t) \in DOMAIN cover_cache
                       /\ ret[t] = cover_cache[key_of(t)]

\* C20: a call that misses the cache while its failure key is in the memo
\* makes no network request and returns a placeholder.
KnownFailureReturnsPlaceholder ==
    [][\A t \in Threads :
          (pc[t] = "check_failed" /\ pc'[t] # "check_failed"
              /\ fail_key(call[t].book) \in failed_covers)
          => /\ pc'[t] = "returned"
             /\ ~call'[t].net
             /\ IsImage(ret'[t]) /\ ret'[t].kind = "placeholder"]_vars

\* C21: when the remote fetch returns a cover, the call stores exactly that
\* cover under its key, returns it, and does not add the failure key to the
\* memo.
FetchedCoverStoredAndReturned ==
    [][\A t \in Threads :
          (pc[t] = "download" /\ pc'[t] = "returned")
          => /\ call'[t].fetch = "cover"
             /\ ret'[t] = final_img(call[t].book, call[t].width, call[t].height)
             /\ key_of(t) \in DOMAIN cover_cache'
             /\ cover_cache'[key_of(t)] = ret'[t]
             /\ failed_covers' = failed_covers]_vars

\* A call returned the cover it fetched; the cache holds it under the call's
\* key and the memo does not hold the pair's failure key.
FetchedCoverStoredAndReturnedWitness ==
    \E t \in Threads : /\ Returned(t)
                       /\ call[t].fetch = "cover"
                       /\ key_of(t) \in DOMAIN cover_cache
                       /\ cover_cache[key_of(t)] = ret[t]
                       /\ fail_key(call[t].book) \notin failed_covers

\* The state of a card in "Placeholder -> Loading -> {Resolved, TimedOut}".
CardPhase(cs, p, c) ==
    IF cs[c].state = "absent" THEN "Absent"
    ELSE IF cs[c].cover_loaded THEN "Resolved"
    ELSE IF cs[c].timed_out THEN "TimedOut"
    ELSE IF p[c] # "idle" THEN "Loading"
    ELSE "Placeholder"

\* C22: the only state changes of a card are Placeholder to Loading, Loading
\* to Resolved and Loading to TimedOut (and its construction).
CardStateMachine ==
    [][\A c \in Cards :
          CardPhase(cards', pc', c) # CardPhase(cards, pc, c)
          => <<CardPhase(cards, pc, c), CardPhase(cards', pc', c)>> \in
                 {<<"Absent", "Placeholder">>, <<"Placeholder", "Loading">>,
                  <<"Loading", "Resolved">>, <<"Loading", "TimedOut">>}]_vars

\* C22, amended: the watchdog cancels nothing, so a card whose watchdog has
\* fired becomes Resolved when the worker's image is delivered; a Resolved
\* card changes state no more.
CardStateMachineWithLateResult ==
    [][\A c \in Cards :
          CardPhase(cards', pc', c) # CardPhase(cards, pc, c)
          => <<CardPhase(cards, pc, c), CardPhase(cards', pc', c)>> \in
                 {<<"Absent", "Placeholder">>, <<"Placeholder", "Loading">>,
                  <<"Loading", "Resolved">>, <<"Loading", "TimedOut">>,
                  <<"TimedOut", "Resolved">>}]_vars

\* A card became Resolved after its watchdog had fired.
CardStateMachineWithLateResultWitness ==
    \E c \in Cards : cards[c].timed_out /\ cards[c].cover_loaded

\* The card's label shows a placeholder, as generated or rotated by a hover.
ShowsPlaceholder(card) == card.image.kind \in {"placeholder", "rotated"} /\ card.image.art = 0

\* The card's label shows the cover that was resolved for the card's key.
ShowsResolved(card, cache) ==
    /\ card.image.kind \in {"real", "rotated"}
    /\ card.image.art = card.book
    /\ cache_key(card.book, CardSize[1], CardSize[2]) \in DOMAIN cache

\* C23: a card shows a placeholder from the end of its construction until
\* the resolved cover is shown, and its worker thread is started in a later
\* step than its construction, by a card that shows an image already.
PlaceholderShownBeforeWorker ==
    [][\A c \in Cards :
          /\ cards'[c].state = "live"
             => (ShowsPlaceholder(cards'[c]) \/ ShowsResolved(cards'[c], cover_cache'))
          /\ (cards[c].state = "absent" /\ cards'[c].state = "live")
             => (ShowsPlaceholder(cards'[c]) /\ pc'[c] = "idle")
          /\ (pc[c] = "idle" /\ pc'[c] # "idle")
             => (cards[c].state = "live" /\ cards[c].load_timer
                 /\ (ShowsPlaceholder(cards[c]) \/ ShowsResolved(cards[c], cover_cache)))]_vars

\* The worker of a card runs while the card shows the placeholder it was
\* constructed with.
PlaceholderShownBeforeWorkerWitness ==
    \E c \in Cards : /\ cards[c].state = "live"
                     /\ pc[c] \in NetPcs
                     /\ ~cards[c].cover_loaded
                     /\ cards[c].image.kind = "placeholder"

\* The step runs check_timeout of card c while the card's thread is alive.
WatchdogFires(c) ==
    cards[c].state = "live" /\ cards[c].watchdog /\ ~cards'[c].watchdog
        /\ cards'[c].state = "live" /\ is_alive(c)

\* What check_timeout leaves alone: cache, memo, threads and the card.
WatchdogFrame(c) ==
    /\ cover_cache' = cover_cache
    /\ failed_covers' = failed_covers
    /\ pc' = pc /\ call' = call /\ ret' = ret
    /\ cards' = [cards EXCEPT ![c].watchdog = FALSE, ![c].timed_out = TRUE]

\* C24: the watchdog is advisory: when it fires while the worker is alive it
\* changes nothing in the cache, the memo, the worker or the card, and the
\* worker's call still returns an image that is in the cache and is handed to
\* the interactive thread.
WatchdogAdvisory ==
    [][\A c \in Cards :
          /\ WatchdogFires(c) => WatchdogFrame(c)
          /\ (cards'[c].timed_out /\ pc'[c] = "returned")
             => /\ IsImage(ret'[c])
                /\ cache_key(cards[c].book, CardSize[1], CardSize[2])
                       \in DOMAIN cover_cache'
          /\ (cards[c].timed_out /\ pc[c] = "returned" /\ pc'[c] = "finished"
                 /\ cards[c].state = "live")
             => cards'[c].update_ui = ret[c]]_vars

\* C25: every background resolution that was started finishes, by success or
\* by failure, whatever happens to the card that started it.
ResolutionTerminates ==
    \A c \in Cards : (pc[c] \in ResolvePcs) ~> (pc[c] = "finished")

\* The thread of a card ended after the card's widgets had been destroyed
\* while it ran.
ResolutionTerminatesWitness ==
    \E c \in Cards : /\ cards[c].state = "destroyed"
                     /\ pc[c] = "finished"
                     /\ cards[c].dropped

\* C26: rendering a card with a rotation does not change the cache: the
\* step that rotates the image a hover resolved leaves every cache entry,
\* that of the card's key included, as it was.
RotationLeavesCacheAlone ==
    [][(pc[UI] = "returned" /\ pc'[UI] = "idle" /\ call[UI].caller = "hover")
          => cover_cache' = cover_cache]_vars

\* A card shows a rotated image while the cache holds the image it was made
\* from under the card's key, at the size it was stored with.
RotationLeavesCacheAloneWitness ==
    \E c \in Cards :
        LET k == cache_key(cards[c].book, CardSize[1], CardSize[2])
        IN  /\ cards[c].image.kind = "rotated"
            /\ k \in DOMAIN cover_cache
            /\ cover_cache[k].kind # "rotated"
            /\ cover_cache[k].art = cards[c].image.art
            /\ cover_cache[k].bg = cards[c].image.bg
            /\ <<cover_cache[k].width, cover_cache[k].height>> = CardSize

\* C27: two requests use one cache entry only if they have the same title,
\* author, width and height, and one memo entry only if they have the same
\* title and author.
KeysInjective == \A p \in key_shared : p.stored = p.asked

RECURSIVE SumLedger(_, _)
\* The quantities added and not since removed or cleared, over the ids of S.
SumLedger(l, S) ==
    IF S = {} THEN 0 ELSE LET b == CHOOSE x \in S : TRUE IN l[b] + SumLedger(l, S \ {b})

\* C29: the cart holds at most one line per book id; add_item for a book
\* that has a line adds the given quantity to that line and leaves the number
\* of lines and the other lines as they were; get_item_count is the sum of
\* the quantities added and not since removed or cleared.
CartOneLinePerBook ==
    [][/\ \A i, j \in 1..Len(items') : i # j => items'[i].id # items'[j].id
       /\ get_item_count(items') = SumLedger(ledger', Books)
       /\ (ops' = ops + 1 /\ last_op'.op = "add" /\ HasLine(items, last_op'.id))
          => /\ Len(items') = Len(items)
             /\ \A i \in 1..Len(items) :
                   items'[i] = IF items[i].id = last_op'.id
                               THEN [items[i] EXCEPT !.quantity = @ + last_op'.quantity]
                               ELSE items[i]]_vars

\* A cart of two lines, one of which was added to more than once.
CartOneLinePerBookWitness ==
    /\ Len(items) = 2
    /\ \E i \in 1..2 : items[i].quantity > MaxQuantity
    /\ last_op.op = "add"

\* C30: a checkout with nobody signed in records no order and leaves the
\* cart as it was; a confirmed checkout of a signed-in user empties the cart
\* and appends exactly one order with the cart's lines to that user's orders.
CheckoutRecordsOrder ==
    [][(ops' = ops + 1 /\ last_op'.op = "checkout")
          => /\ last_op'.outcome = "login_required"
                => (orders' = orders /\ items' = items)
             /\ last_op'.outcome = "confirmed"
                => /\ items' = <<>>
                   /\ orders' = [orders EXCEPT ![current_user] =
                                     Append(@, order_items(items))]]_vars

\* C28: a card starts at most one worker thread, and its cover_loaded flag
\* becomes true only in a step of the interactive thread that displays the
\* image the card's finished worker handed over.
OneWorkerPerCard ==
    [][\A c \in Cards :
          /\ cards'[c].threads <= 1
          /\ (~cards[c].cover_loaded /\ cards'[c].cover_loaded)
             => /\ pc[UI] = "idle" /\ pc' = pc
                /\ pc[c] = "finished"
                /\ cards[c].threads = 1
                /\ IsImage(cards[c].update_ui)
                /\ cards'[c].image = cards[c].update_ui
                /\ cards'[c].update_ui = NoImage]_vars

\* The one worker of a card has ended and its image is displayed.
OneWorkerPerCardWitness ==
    \E c \in Cards : /\ cards[c].threads = 1
                     /\ cards[c].cover_loaded
                     /\ pc[c] = "finished"
                     /\ ~cards[c].load_timer
                     /\ IsImage(cards[c].image)

====
